---- MODULE Spec2Model ----
(***************************************************************************)
(* Model of the ip-cidr crate: the CIDR block engine of base.rs (as        *)
(* instantiated for IPv4/u32 in v4.rs and IPv6/u128 in v6.rs), the         *)
(* dual-family Cidr enum of lib.rs, and the textual parser of parser.rs.   *)
(*                                                                         *)
(* The integer widths are the real ones: 32 bits (u32, IPv4) and 128 bits *)
(* (u128, IPv6).                                                           *)
(***************************************************************************)
EXTENDS Integers, Sequences, FiniteSets, TLC

VARIABLES
    pc,                      \* the program position
    text,                    \* Parser.text: the input bytes, a sequence of one-character strings
    idx,                     \* the loop index of Parser::parse
    state,                   \* Parser.state
    family,                  \* Parser.family
    flags,                   \* Parser.flags: the set of flag bits that are set
    components_size,         \* Parser.components_size
    components,              \* Parser.components: [u16; 8]
    zero_component_start,    \* Parser.zero_component_start
    start_digit_position,    \* Parser.start_digit_position
    result,                  \* what parse_ip returned
    parsed,                  \* what parse_cidr returned
    cidr,                    \* a dual-family Cidr value under query
    op,                      \* the last operation called on cidr
    arg,                     \* its argument
    ret                      \* its return value

vars == <<pc, text, idx, state, family, flags, components_size, components,
          zero_component_start, start_digit_position, result, parsed,
          cidr, op, arg, ret>>

parserVars == <<text, idx, state, family, flags, components_size, components,
                zero_component_start, start_digit_position, result, parsed>>

engineVars == <<cidr, op, arg, ret>>

----------------------------------------------------------------------------
(* Program constants *)

V4_BITS_LEN == 32
V6_BITS_LEN == 128
IPV4_LEN == 4
IPV6_LEN == 8
IS_IPV6_ZERO_SKIP == 2
IS_IPV6_SEP_INITIAL == 4
COMPONENTS_LEN == 8
U8_MAX == 255
U16_MAX == 65535

----------------------------------------------------------------------------
(* Fixed-width unsigned integers.  A u32 (the bits of an Ipv4Addr) is the  *)
(* sequence of its 4 octets and a u128 (the bits of an Ipv6Addr) the       *)
(* sequence of its 8 16-bit segments, the most significant first.  The     *)
(* bitwise operations work on the bits: the sequence of W bits, the most   *)
(* significant first, so that a prefix of p bits is the first p elements.  *)

Pow2(n) == IF n = 0 THEN 1 ELSE 2 ^ n

\* the sequence f itself, its elements evaluated once
Vec(f) == <<>> \o f

\* bit i (of significance 2^i) of the natural number n
BitOf(n, i) == (n \div Pow2(i)) % 2

\* the width in bits of one element of x: 8 for a u32, 16 for a u128
LimbBits(x) == IF Len(x) = 4 THEN 8 ELSE 16

\* the width in bits of x
Width(x) == Len(x) * LimbBits(x)

\* bit i (of significance 2^i) of x
Bit(x, i) == BitOf(x[Len(x) - (i \div LimbBits(x))], i % LimbBits(x))

\* the bits of x, the most significant first
Bits(x) ==
    LET L == LimbBits(x)
    IN  Vec([k \in 1..(Len(x) * L) |-> BitOf(x[((k - 1) \div L) + 1], (L - 1) - ((k - 1) % L))])

\* the number whose bits are b[from .. from + n - 1]
RECURSIVE BitsValue(_, _, _, _)
BitsValue(b, from, n, acc) ==
    IF n = 0 THEN acc
    ELSE BitsValue(b, from + 1, n - 1, 2 * acc + b[from])

\* the integer of width Len(b) whose bits are b
FromBits(b) ==
    LET L == IF Len(b) = 32 THEN 8 ELSE 16
    IN  Vec([j \in 1..(Len(b) \div L) |-> BitsValue(b, (L * (j - 1)) + 1, L, 0)])

\* $repr::MIN / Ipv4Addr::UNSPECIFIED / Ipv6Addr::UNSPECIFIED
Zero(W) == FromBits([k \in 1..W |-> 0])

\* $repr::MAX
ReprMax(W) == FromBits([k \in 1..W |-> 1])

\* the literal 1 of width W
One(W) == FromBits([k \in 1..W |-> IF k = W THEN 1 ELSE 0])

\* a small literal n (n < 2^30) of width W
Lit(n, W) == FromBits([k \in 1..W |-> IF W - k < 30 THEN BitOf(n, W - k) ELSE 0])

\* a & b
BitAnd(a, b) ==
    LET x == Bits(a)
        y == Bits(b)
    IN  FromBits([k \in DOMAIN x |-> IF x[k] = 1 /\ y[k] = 1 THEN 1 ELSE 0])

\* a | b
BitOr(a, b) ==
    LET x == Bits(a)
        y == Bits(b)
    IN  FromBits([k \in DOMAIN x |-> IF x[k] = 1 \/ y[k] = 1 THEN 1 ELSE 0])

\* !a
BitNot(a) ==
    LET x == Bits(a)
    IN  FromBits([k \in DOMAIN x |-> 1 - x[k]])

\* a << n for n < W (the only shifts the code performs, see mask and size)
Shl(a, n) ==
    LET x == Bits(a)
    IN  FromBits([k \in DOMAIN x |-> IF k + n <= Len(x) THEN x[k + n] ELSE 0])

\* a >= b as unsigned integers of the same width, decided at the most
\* significant element where they differ
RECURSIVE GeqFrom(_, _, _)
GeqFrom(a, b, k) ==
    IF k > Len(a) THEN TRUE
    ELSE IF a[k] = b[k] THEN GeqFrom(a, b, k + 1)
    ELSE a[k] > b[k]

Geq(a, b) == GeqFrom(a, b, 1)

\* `x as u32` on a u128: the low 32 bits
AsU32(x) ==
    LET b == Bits(x)
    IN  FromBits([k \in 1..V4_BITS_LEN |-> b[k + (V6_BITS_LEN - V4_BITS_LEN)]])

\* `x as u128` on a u32: zero extension
AsU128(x) ==
    LET b == Bits(x)
    IN  FromBits([k \in 1..V6_BITS_LEN |->
            IF k > V6_BITS_LEN - V4_BITS_LEN THEN b[k - (V6_BITS_LEN - V4_BITS_LEN)] ELSE 0])

\* a + b element by element from the least significant, with the carry c
\* into element k; <<sum, carry out>>
RECURSIVE AddFrom(_, _, _, _, _)
AddFrom(a, b, k, c, acc) ==
    IF k = 0 THEN <<acc, c>>
    ELSE LET t == a[k] + b[k] + c
             m == Pow2(LimbBits(a))
         IN  AddFrom(a, b, k - 1, t \div m, <<t % m>> \o acc)

\* a.saturating_add(b): the sum, or the maximum when it does not fit
saturating_add(a, b) ==
    LET r == AddFrom(a, b, Len(a), 0, <<>>)
    IN  IF r[2] = 1 THEN ReprMax(Width(a)) ELSE r[1]

\* a.wrapping_add(b): the sum modulo 2^W
wrapping_add(a, b) == AddFrom(a, b, Len(a), 0, <<>>)[1]

\* u8::saturating_sub
saturating_sub(a, b) == IF a >= b THEN a - b ELSE 0

\* u8::saturating_add
saturating_add_u8(a, b) == IF a + b > U8_MAX THEN U8_MAX ELSE a + b

----------------------------------------------------------------------------
(* Texts: a text is the sequence of its bytes, each a one-character string *)

DecChars == <<"0", "1", "2", "3", "4", "5", "6", "7", "8", "9">>

LowerHexChars == <<"a", "b", "c", "d", "e", "f">>

UpperHexChars == <<"A", "B", "C", "D", "E", "F">>

\* the texts of ts joined by sep
RECURSIVE Join(_, _)
Join(ts, sep) ==
    IF Len(ts) = 0 THEN <<>>
    ELSE IF Len(ts) = 1 THEN ts[1]
    ELSE ts[1] \o sep \o Join(Tail(ts), sep)

\* the decimal numeral of n
RECURSIVE DecStr(_)
DecStr(n) ==
    IF n < 10 THEN <<DecChars[n + 1]>>
    ELSE DecStr(n \div 10) \o <<DecChars[(n % 10) + 1]>>

\* the lower-case hex numeral of n, as {:x} writes it
RECURSIVE HexStr(_)
HexStr(n) ==
    IF n < 16 THEN <<(DecChars \o LowerHexChars)[n + 1]>>
    ELSE HexStr(n \div 16) \o <<(DecChars \o LowerHexChars)[(n % 16) + 1]>>

----------------------------------------------------------------------------
(* Addresses: core::net::IpAddr as [fam, bits] *)

\* Ipv4Addr::new(a, b, c, d): a is the most significant octet
Ipv4Addr_new(a, b, c, d) == <<a, b, c, d>>

\* Ipv6Addr::new(a, .., h) on the eight segments, g[1] the most significant
Ipv6Addr_new(g) == [k \in 1..8 |-> g[k]]

IpAddrV4(bits) == [fam |-> "V4", bits |-> bits]

IpAddrV6(bits) == [fam |-> "V6", bits |-> bits]

\* NetworkAddress::BITS_LEN of the family
BITS_LEN(fam) == IF fam = "V4" THEN V4_BITS_LEN ELSE V6_BITS_LEN

----------------------------------------------------------------------------
(* base.rs: the block engine, generated per family by impl_base_methods!   *)
(* (W is the family's BITS_LEN, which is also the width of $repr)          *)

None == [some |-> FALSE]

Some(v) == [some |-> TRUE, val |-> v]

\* new refusing the full-width prefix as well
base_Cidr_new_below_bits_len(fam, addr, prefix) ==
    IF prefix >= BITS_LEN(fam) THEN None
    ELSE Some([fam |-> fam, addr |-> addr, prefix |-> prefix])

\* base::Cidr<A>::new
base_Cidr_new(fam, addr, prefix) ==
    IF prefix > BITS_LEN(fam) THEN None
    ELSE Some([fam |-> fam, addr |-> addr, prefix |-> prefix])

\* the shift amount taken with wrapping_sub: (BITS_LEN - prefix) mod 2^8
shift_amount_wrapping(W, prefix) == (W + (U8_MAX + 1) - prefix) % (U8_MAX + 1)

\* BITS_LEN.saturating_sub(prefix): the shift amount of mask and of size
shift_amount(W, prefix) == saturating_sub(W, prefix)

mask(W, prefix) ==
    IF prefix = 0 THEN Zero(W)
    ELSE Shl(ReprMax(W), shift_amount(W, prefix))

network_addr(W, addr, prefix) == BitAnd(addr, mask(W, prefix))

broadcast_addr(W, addr, prefix) == BitOr(addr, BitNot(mask(W, prefix)))

\* size without the special case of prefix 0: 1 << BITS_LEN is 1 << 0 in a
\* release build (the shift amount wraps)
size_no_zero_case(W, prefix) ==
    Shl(One(W), saturating_sub(W, prefix) % W)

size(W, prefix) ==
    IF prefix = 0 THEN ReprMax(W)
    ELSE Shl(One(W), shift_amount(W, prefix))

\* the methods of base::Cidr<$typ>; c is [fam, addr, prefix]
cidr_network_addr(c) == network_addr(BITS_LEN(c.fam), c.addr, c.prefix)

cidr_broadcast_addr(c) == broadcast_addr(BITS_LEN(c.fam), c.addr, c.prefix)

\* contains without the mask on the address asked about
cidr_contains_unmasked(c, addr) == addr = cidr_network_addr(c)

\* contains comparing against the block's address instead of its network address
cidr_contains_addr(c, addr) ==
    BitAnd(addr, mask(BITS_LEN(c.fam), c.prefix)) = c.addr

cidr_contains(c, addr) ==
    BitAnd(addr, mask(BITS_LEN(c.fam), c.prefix)) = cidr_network_addr(c)

cidr_size(c) == size(BITS_LEN(c.fam), c.prefix)

\* get_unchecked counting from the block's address instead of its network
\* address
cidr_get_unchecked_from_addr(c, i) == wrapping_add(c.addr, i)

\* get_unchecked that stops at the maximum instead of wrapping
cidr_get_unchecked_saturating(c, i) == saturating_add(cidr_network_addr(c), i)

cidr_get_unchecked(c, i) == wrapping_add(cidr_network_addr(c), i)

cidr_get(c, i) ==
    IF Geq(i, cidr_size(c)) THEN None
    ELSE Some(cidr_get_unchecked(c, i))

----------------------------------------------------------------------------
(* lib.rs: the dual-family Cidr; the value is [fam, addr, prefix], fam the *)
(* variant                                                                 *)

Cidr_new_v4(addr, prefix) == base_Cidr_new("V4", addr, prefix)

Cidr_new_v6(addr, prefix) == base_Cidr_new("V6", addr, prefix)

Cidr_new(ip, prefix) ==
    IF ip.fam = "V4" THEN Cidr_new_v4(ip.bits, prefix)
    ELSE Cidr_new_v6(ip.bits, prefix)

Cidr_addr(c) == IF c.fam = "V4" THEN IpAddrV4(c.addr) ELSE IpAddrV6(c.addr)

Cidr_prefix(c) == c.prefix

Cidr_network_addr(c) ==
    IF c.fam = "V4" THEN IpAddrV4(cidr_network_addr(c))
    ELSE IpAddrV6(cidr_network_addr(c))

Cidr_broadcast_addr(c) ==
    IF c.fam = "V4" THEN IpAddrV4(cidr_broadcast_addr(c))
    ELSE IpAddrV6(cidr_broadcast_addr(c))

Cidr_size(c) ==
    IF c.fam = "V4" THEN AsU128(cidr_size(c)) ELSE cidr_size(c)

\* contains converting an address of the other family to the block's width
\* instead of answering false
Cidr_contains_converted(c, ip) ==
    IF c.fam = ip.fam THEN cidr_contains(c, ip.bits)
    ELSE IF c.fam = "V4" THEN cidr_contains(c, AsU32(ip.bits))
    ELSE cidr_contains(c, AsU128(ip.bits))

Cidr_contains(c, ip) ==
    IF c.fam = "V4" /\ ip.fam = "V4" THEN cidr_contains(c, ip.bits)
    ELSE IF c.fam = "V6" /\ ip.fam = "V6" THEN cidr_contains(c, ip.bits)
    ELSE FALSE

Cidr_get(c, i) ==
    IF c.fam = "V4"
    THEN LET r == cidr_get(c, AsU32(i))
         IN  IF r.some THEN Some(IpAddrV4(r.val)) ELSE None
    ELSE LET r == cidr_get(c, i)
         IN  IF r.some THEN Some(IpAddrV6(r.val)) ELSE None

Cidr_get_unchecked(c, i) ==
    IF c.fam = "V4" THEN IpAddrV4(cidr_get_unchecked(c, AsU32(i)))
    ELSE IpAddrV6(cidr_get_unchecked(c, i))

\* Display of Ipv4Addr: the four octets in decimal
Ipv4Addr_fmt(o) == Join(<<DecStr(o[1]), DecStr(o[2]), DecStr(o[3]), DecStr(o[4])>>, <<".">>)

\* the length of the run of zero segments of g that starts at k
RECURSIVE ZeroRunLen(_, _)
ZeroRunLen(g, k) == IF k > Len(g) \/ g[k] # 0 THEN 0 ELSE 1 + ZeroRunLen(g, k + 1)

\* the first of the longest runs of zero segments: [start, len], len 0 if
\* no segment is zero
LongestZeroRun(g) ==
    LET longest == CHOOSE m \in 0..Len(g) :
                       /\ \E k \in 1..Len(g) : ZeroRunLen(g, k) = m
                       /\ \A k \in 1..Len(g) : ZeroRunLen(g, k) <= m
        first == CHOOSE k \in 1..Len(g) :
                     /\ ZeroRunLen(g, k) = longest
                     /\ \A j \in 1..(k - 1) : ZeroRunLen(g, j) < longest
    IN  [start |-> first, len |-> longest]

\* Display of Ipv6Addr: an IPv4-mapped address as ::ffff:a.b.c.d; otherwise
\* the segments in lower-case hex, the first longest run of two or more
\* zero segments written as "::"
Ipv6Addr_fmt(g) ==
    LET z == LongestZeroRun(g)
        hex(from, to) == Join([k \in 1..((to - from) + 1) |-> HexStr(g[(from + k) - 1])], <<":">>)
    IN  IF (\A k \in 1..5 : g[k] = 0) /\ g[6] = U16_MAX
        THEN <<":", ":", "f", "f", "f", "f", ":">>
             \o Ipv4Addr_fmt(<<g[7] \div 256, g[7] % 256, g[8] \div 256, g[8] % 256>>)
        ELSE IF z.len > 1
        THEN hex(1, z.start - 1) \o <<":", ":">> \o hex(z.start + z.len, Len(g))
        ELSE hex(1, Len(g))

\* Display of base::Cidr<A>: "{addr}/{prefix}"
base_Cidr_fmt(c) ==
    (IF c.fam = "V4" THEN Ipv4Addr_fmt(c.addr) ELSE Ipv6Addr_fmt(c.addr))
    \o <<"/">> \o DecStr(c.prefix)

\* Display of the dual-family Cidr
Cidr_fmt(c) == base_Cidr_fmt(c)

----------------------------------------------------------------------------
(* The block engine run: a constructed Cidr and the queries made on it *)

\* the addresses the blocks are built on (tests/ipv4.rs, tests/ipv6.rs)
V4Addrs ==
    { Ipv4Addr_new(0, 0, 0, 0),
      Ipv4Addr_new(255, 255, 255, 30),
      Ipv4Addr_new(127, 0, 0, 1) }

V6Addrs ==
    { Ipv6Addr_new(<<65535, 65535, 65535, 65535, 65535, 65535, 65535, 65532>>),
      Ipv6Addr_new(<<8193, 3512, 2571, 4848, 0, 0, 0, 1>>),
      Ipv6Addr_new(<<0, 0, 0, 0, 0, 65535, 32512, 1>>) }

IpAddrs == {IpAddrV4(a) : a \in V4Addrs} \cup {IpAddrV6(a) : a \in V6Addrs}

\* every block Cidr::new accepts on these addresses
Cidrs ==
    { r.val : r \in { Cidr_new(ip, p) : ip \in IpAddrs, p \in 0..V6_BITS_LEN } \ {None} }

\* the position of the lowest set bit of b, from position k down (b # 0)
RECURSIVE LowestSet(_, _)
LowestSet(b, k) == IF b[k] = 1 THEN k ELSE LowestSet(b, k - 1)

\* x - 1 for x # 0
Pred(x) ==
    LET b == Bits(x)
        low == LowestSet(b, Len(b))
    IN  FromBits([k \in DOMAIN b |-> IF k > low THEN 1 ELSE IF k = low THEN 0 ELSE b[k]])

\* the u128 indices asked for: small ones, the ends of the block, the ends
\* of u32 and u128, and indices just above u32
Indices(c) ==
    { Lit(0, V6_BITS_LEN), Lit(1, V6_BITS_LEN), Lit(2, V6_BITS_LEN),
      Lit(3, V6_BITS_LEN), Lit(4, V6_BITS_LEN),
      Lit(225, V6_BITS_LEN), Lit(226, V6_BITS_LEN),
      Cidr_size(c), Pred(Cidr_size(c)),
      AsU128(ReprMax(V4_BITS_LEN)), Pred(AsU128(ReprMax(V4_BITS_LEN))),
      Shl(One(V6_BITS_LEN), V4_BITS_LEN),
      BitOr(Shl(One(V6_BITS_LEN), V4_BITS_LEN), One(V6_BITS_LEN)),
      ReprMax(V6_BITS_LEN), Pred(ReprMax(V6_BITS_LEN)) }

\* the addresses next to the block: the one below its network address
\* and the one above its broadcast address, where there is one
Neighbours(c) ==
    LET W == BITS_LEN(c.fam)
        net == Cidr_network_addr(c)
        bcast == Cidr_broadcast_addr(c)
    IN  {[fam |-> c.fam, bits |-> Pred(x.bits)] : x \in {net} \ {[fam |-> c.fam, bits |-> Zero(W)]}}
        \cup {[fam |-> c.fam, bits |-> wrapping_add(x.bits, One(W))] :
                x \in {bcast} \ {[fam |-> c.fam, bits |-> ReprMax(W)]}}

\* the addresses asked about
Queries(c) ==
    IpAddrs \cup {Cidr_addr(c), Cidr_network_addr(c), Cidr_broadcast_addr(c)}
    \cup Neighbours(c)

\* the calls made on a block: <<operation, argument>>
Calls(c) ==
    {<<"network_addr", None>>, <<"broadcast_addr", None>>, <<"size", None>>,
     <<"to_string", None>>}
    \cup {<<"contains", ip>> : ip \in Queries(c)}
    \cup {<<"get", i>> : i \in Indices(c)}
    \cup {<<"get_unchecked", i>> : i \in Indices(c)}

\* the constructor calls: <<constructor, [ip, prefix]>>, the prefix any u8
NewCalls ==
    {<<"new", [ip |-> ip, prefix |-> p]>> : ip \in IpAddrs, p \in 0..U8_MAX}
    \cup {<<"new_v4", [ip |-> IpAddrV4(a), prefix |-> p]>> : a \in V4Addrs, p \in 0..U8_MAX}
    \cup {<<"new_v6", [ip |-> IpAddrV6(a), prefix |-> p]>> : a \in V6Addrs, p \in 0..U8_MAX}

\* the calls of the free functions of v4 and v6, the prefix any u8:
\* <<function, arguments>>
FnCalls ==
    {<<f, [fam |-> fam, prefix |-> p]>> :
        f \in {"fn_mask", "fn_size"}, fam \in {"V4", "V6"}, p \in 0..U8_MAX}
    \cup {<<f, [fam |-> ip.fam, addr |-> ip.bits, prefix |-> p]>> :
            f \in {"fn_network_addr", "fn_broadcast_addr"}, ip \in IpAddrs, p \in 0..U8_MAX}

ParserIdle ==
    /\ text = <<>>
    /\ idx = 0
    /\ state = "Initial"
    /\ family = "Unknown"
    /\ flags = {}
    /\ components_size = 0
    /\ components = [k \in 1..COMPONENTS_LEN |-> 0]
    /\ zero_component_start = 0
    /\ start_digit_position = 0
    /\ result = [tag |-> "Pending"]
    /\ parsed = [tag |-> "Pending"]

\* one call about to be made: a method on a block built by Cidr::new, or a
\* constructor or a free function (then there is no block)
EngineInit ==
    /\ pc = "call"
    /\ ParserIdle
    /\ \/ /\ cidr \in Cidrs
          /\ \E call \in Calls(cidr) : op = call[1] /\ arg = call[2]
       \/ /\ cidr = None
          /\ \E call \in NewCalls \cup FnCalls : op = call[1] /\ arg = call[2]
    /\ ret = None

Return(o, r) ==
    /\ pc = "call"
    /\ op = o
    /\ pc' = "return"
    /\ ret' = r
    /\ UNCHANGED <<cidr, op, arg>>
    /\ UNCHANGED parserVars

DoNetworkAddr == Return("network_addr", Cidr_network_addr(cidr))

DoBroadcastAddr == Return("broadcast_addr", Cidr_broadcast_addr(cidr))

DoSize == Return("size", Cidr_size(cidr))

DoContains == Return("contains", Cidr_contains(cidr, arg))

DoGet == Return("get", Cidr_get(cidr, arg))

DoGetUnchecked == Return("get_unchecked", Cidr_get_unchecked(cidr, arg))

DoNew == Return("new", Cidr_new(arg.ip, arg.prefix))

DoNewV4 == Return("new_v4", Cidr_new_v4(arg.ip.bits, arg.prefix))

DoNewV6 == Return("new_v6", Cidr_new_v6(arg.ip.bits, arg.prefix))

\* the free functions v4::mask, v6::mask, ... on the bits of the family
DoFnMask == Return("fn_mask", mask(BITS_LEN(arg.fam), arg.prefix))

DoFnNetworkAddr ==
    Return("fn_network_addr", network_addr(BITS_LEN(arg.fam), arg.addr, arg.prefix))

DoFnBroadcastAddr ==
    Return("fn_broadcast_addr", broadcast_addr(BITS_LEN(arg.fam), arg.addr, arg.prefix))

DoFnSize == Return("fn_size", size(BITS_LEN(arg.fam), arg.prefix))

\* cidr.to_string(), the text then handed to parse_cidr: the parser starts
\* on it
DoToString ==
    /\ pc = "call"
    /\ op = "to_string"
    /\ text' = Cidr_fmt(cidr)
    /\ pc' = "parse"
    /\ UNCHANGED <<idx, state, family, flags, components_size, components,
                   zero_component_start, start_digit_position, result, parsed>>
    /\ UNCHANGED engineVars

EngineNext ==
    \/ DoToString
    \/ DoNew
    \/ DoNewV4
    \/ DoNewV6
    \/ DoNetworkAddr
    \/ DoBroadcastAddr
    \/ DoSize
    \/ DoContains
    \/ DoGet
    \/ DoGetUnchecked
    \/ DoFnMask
    \/ DoFnNetworkAddr
    \/ DoFnBroadcastAddr
    \/ DoFnSize

SpecCidr == EngineInit /\ [][EngineNext]_vars

----------------------------------------------------------------------------
(* Properties of the block engine (checked under SpecCidr) *)

\* the first p bits of a kept, the other W - p cleared: a & mask(p)
NetBits(a, p, W) ==
    LET b == Bits(a)
    IN  FromBits([k \in 1..W |-> IF k <= p THEN b[k] ELSE 0])

\* the first p bits of a kept, the other W - p set: a | !mask(p)
BcastBits(a, p, W) ==
    LET b == Bits(a)
    IN  FromBits([k \in 1..W |-> IF k <= p THEN b[k] ELSE 1])

\* s = (a + b) mod 2^W, read off the bits: the carry into each bit that s
\* implies is the carry the bits below produce (a, b may be wider than W)
IsSumMod(s, a, b, W) ==
    LET c == [i \in 0..(W - 1) |-> (Bit(s, i) + Bit(a, i) + Bit(b, i)) % 2]
    IN  /\ c[0] = 0
        /\ \A i \in 0..(W - 2) :
              c[i + 1] = (IF Bit(a, i) + Bit(b, i) + c[i] >= 2 THEN 1 ELSE 0)

Returned(o) == pc = "return" /\ op = o

\* C1: for the dual-family Cidr and every 128-bit index, get(idx) is None
\* exactly when idx >= size(), and otherwise Some(get_unchecked(idx)).
C1_GetNoneIffBeyondSize ==
    Returned("get") =>
        /\ (ret = None) <=> Geq(arg, Cidr_size(cidr))
        /\ ret # None => ret = Some(Cidr_get_unchecked(cidr, arg))

\* C2: size(p) is 2^(W-p) for p in 1..=W and the representation maximum
\* 2^W - 1 for p = 0; the dual-family size() is that number widened to 128
\* bits (bit i of the result is set exactly as stated).
C2_SizeIsPowerOfTwo ==
    Returned("size") =>
        LET W == BITS_LEN(cidr.fam)
            p == cidr.prefix
        IN  /\ Width(ret) = V6_BITS_LEN
            /\ \A i \in 0..(V6_BITS_LEN - 1) :
                  Bit(ret, i) = 1 <=> (IF p = 0 THEN i < W ELSE i = W - p)
            /\ Width(cidr_size(cidr)) = W
            /\ \A i \in 0..(W - 1) : Bit(cidr_size(cidr), i) = Bit(ret, i)

C2_Witness ==
    /\ Returned("size")
    /\ cidr.fam = "V4"
    /\ cidr.prefix = 0
    /\ ret = AsU128(ReprMax(V4_BITS_LEN))

\* C9: a block contains its own network address a & mask(p), its own
\* broadcast address a | !mask(p), and a itself.
C9_ContainsOwnBounds ==
    LET W == BITS_LEN(cidr.fam)
    IN  ( /\ Returned("contains")
          /\ arg.fam = cidr.fam
          /\ arg.bits \in { NetBits(cidr.addr, cidr.prefix, W),
                            BcastBits(cidr.addr, cidr.prefix, W),
                            cidr.addr } )
        => ret = TRUE

C9_Witness ==
    /\ Returned("contains")
    /\ cidr.fam = "V6"
    /\ cidr.prefix = 127
    /\ arg.fam = "V6"
    /\ arg.bits = BcastBits(cidr.addr, 127, V6_BITS_LEN)
    /\ arg.bits # cidr.addr
    /\ ret = TRUE

\* C10: get_unchecked(idx) is (network_addr + idx) mod 2^W for every index,
\* also beyond the block's size; for 255.255.255.30/31, index 225 gives
\* 255.255.255.255 and index 226 wraps to 0.0.0.0; for the V4 variant the
\* sum is taken modulo 2^32 of the whole 128-bit index.
C10_GetUncheckedWraps ==
    Returned("get_unchecked") =>
        LET W == BITS_LEN(cidr.fam)
        IN  /\ ret.fam = cidr.fam
            /\ Width(ret.bits) = W
            /\ IsSumMod(ret.bits, NetBits(cidr.addr, cidr.prefix, W), arg, W)
            /\ ( /\ cidr.fam = "V4"
                 /\ cidr.addr = Ipv4Addr_new(255, 255, 255, 30)
                 /\ cidr.prefix = 31 )
               => /\ arg = Lit(225, V6_BITS_LEN)
                      => ret.bits = Ipv4Addr_new(255, 255, 255, 255)
                  /\ arg = Lit(226, V6_BITS_LEN)
                      => ret.bits = Ipv4Addr_new(0, 0, 0, 0)

C10_Witness ==
    /\ Returned("get_unchecked")
    /\ cidr.fam = "V4"
    /\ cidr.addr = Ipv4Addr_new(255, 255, 255, 30)
    /\ cidr.prefix = 31
    /\ arg = Lit(226, V6_BITS_LEN)
    /\ ret = IpAddrV4(Zero(V4_BITS_LEN))

----------------------------------------------------------------------------
(* parser.rs.  Sequences are indexed from 1: byte i of the text is        *)
(* text[i + 1] and the code's components[k] is components[k + 1].  A       *)
(* method taking &mut self is an operator from the Parser record to the    *)
(* record after the call, together with what the call returned.            *)

\* char::to_digit(16): the value of a hex digit, -1 for any other byte
to_digit(ch) ==
    IF \E k \in 1..10 : DecChars[k] = ch
    THEN (CHOOSE k \in 1..10 : DecChars[k] = ch) - 1
    ELSE IF \E k \in 1..6 : LowerHexChars[k] = ch
    THEN (CHOOSE k \in 1..6 : LowerHexChars[k] = ch) + 9
    ELSE IF \E k \in 1..6 : UpperHexChars[k] = ch
    THEN (CHOOSE k \in 1..6 : UpperHexChars[k] = ch) + 9
    ELSE -1

\* u8::is_ascii_hexdigit
is_ascii_hexdigit(ch) == to_digit(ch) >= 0

\* the digits of an unsigned from_str_radix: every byte a digit of the
\* radix, the value at most max; -1 stands for Err
RECURSIVE from_digits(_, _, _, _)
from_digits(src, radix, max, acc) ==
    IF src = <<>> THEN acc
    ELSE LET d == to_digit(Head(src))
         IN  IF d < 0 \/ d >= radix THEN -1
             ELSE IF (acc * radix) + d > max THEN -1
             ELSE from_digits(Tail(src), radix, max, (acc * radix) + d)

\* u8::from_str_radix / u16::from_str_radix (max the type's maximum): the
\* empty text and a lone sign are errors, a leading '+' is skipped; -1
\* stands for Err
from_str_radix(src, radix, max) ==
    IF src = <<>> THEN -1
    ELSE IF Len(src) = 1 /\ src[1] \in {"+", "-"} THEN -1
    ELSE IF src[1] = "+" THEN from_digits(Tail(src), radix, max, 0)
    ELSE from_digits(src, radix, max, 0)

\* slice::from_raw_parts(text.as_ptr().add(start), len)
Slice(t, start, len) == SubSeq(t, start + 1, start + len)

\* ParseError values
NoError == [kind |-> "None", txt |-> <<>>, num |-> 0]

Error(kind) == [kind |-> kind, txt |-> <<>>, num |-> 0]

ErrorText(kind, txt) == [kind |-> kind, txt |-> txt, num |-> 0]

ErrorNum(kind, num) == [kind |-> kind, txt |-> <<>>, num |-> num]

\* UnexpectedCharacter that keeps the character and loses the offset
ErrorChar_no_offset(ch, pos) == [kind |-> "UnexpectedCharacter", txt |-> <<ch>>, num |-> 0]

\* UnexpectedCharacter(ch, idx)
ErrorChar(ch, pos) == [kind |-> "UnexpectedCharacter", txt |-> <<ch>>, num |-> pos]

\* Result values: of an address (read_ip, on_ip_end), of a prefix
\* (on_cidr_sep), of an address with an optional prefix (parse_ip)
NoIp == [fam |-> "None", bits |-> <<>>]

Ok(ip, prefix) == [tag |-> "Ok", ip |-> ip, prefix |-> prefix, err |-> NoError]

Err(e) == [tag |-> "Err", ip |-> NoIp, prefix |-> None, err |-> e]

\* the Parser struct as parse_ip builds it
Parser(t) ==
    [ state |-> "Initial",
      flags |-> {},
      family |-> "Unknown",
      components_size |-> 0,
      components |-> [k \in 1..COMPONENTS_LEN |-> 0],
      zero_component_start |-> 0,
      start_digit_position |-> 0,
      text |-> t ]

\* what a method returns beside the parser it leaves: an error or none
Left(self, e) == [self |-> self, err |-> e]

\* the text of the component that ends at component_sep_pos
component_text(self, component_sep_pos) ==
    Slice(self.text, self.start_digit_position,
          saturating_sub(component_sep_pos, self.start_digit_position))

\* extract_component without the check of the number of components
extract_component_no_count_check(self, component_sep_pos) ==
    LET t == component_text(self, component_sep_pos)
        r == IF self.family = "V4" THEN from_str_radix(t, 10, U16_MAX)
             ELSE from_str_radix(t, 16, U16_MAX)
    IN  IF self.family = "Unknown"
        THEN Left(self, NoError)
        ELSE IF r >= 0
        THEN Left([self EXCEPT
                      !.components = [k \in 1..COMPONENTS_LEN |->
                                         IF k = self.components_size + 1 THEN r ELSE @[k]],
                      !.components_size = saturating_add_u8(self.components_size, 1),
                      !.start_digit_position = 0],
                  NoError)
        ELSE Left(self, ErrorText("InvalidComponent", t))

\* extract_component validating the digits before it counts the components
extract_component_digits_first(self, component_sep_pos) ==
    LET t == component_text(self, component_sep_pos)
        r == IF self.family = "V4" THEN from_str_radix(t, 10, U16_MAX)
             ELSE from_str_radix(t, 16, U16_MAX)
    IN  IF self.family = "Unknown"
        THEN Left(self, NoError)
        ELSE IF r < 0
        THEN Left(self, ErrorText("InvalidComponent", t))
        ELSE IF self.family = "V4" /\ self.components_size >= 4
        THEN Left(self, ErrorNum("Ipv4InvalidComponentSize",
                                 saturating_add_u8(self.components_size, 1)))
        ELSE IF self.family = "V6" /\ self.components_size >= 8
        THEN Left(self, ErrorNum("Ipv6InvalidComponentSize",
                                 saturating_add_u8(self.components_size, 1)))
        ELSE Left([self EXCEPT
                      !.components[self.components_size + 1] = r,
                      !.components_size = saturating_add_u8(self.components_size, 1),
                      !.start_digit_position = 0],
                  NoError)

extract_component(self, component_sep_pos) ==
    LET t == component_text(self, component_sep_pos)
        r == IF self.family = "V4" THEN from_str_radix(t, 10, U16_MAX)
             ELSE from_str_radix(t, 16, U16_MAX)
    IN  IF self.family = "V4" /\ self.components_size >= 4
        THEN Left(self, ErrorNum("Ipv4InvalidComponentSize",
                                 saturating_add_u8(self.components_size, 1)))
        ELSE IF self.family = "V6" /\ self.components_size >= 8
        THEN Left(self, ErrorNum("Ipv6InvalidComponentSize",
                                 saturating_add_u8(self.components_size, 1)))
        ELSE IF self.family = "Unknown"
        THEN Left(self, NoError)
        ELSE IF r >= 0
        THEN Left([self EXCEPT
                      !.components[self.components_size + 1] = r,
                      !.components_size = saturating_add_u8(self.components_size, 1),
                      !.start_digit_position = 0],
                  NoError)
        ELSE Left(self, ErrorText("InvalidComponent", t))

\* the splice without ptr::copy: the zero run is written over the components
\* that follow the "::" instead of being put before them
splice_zero_run_no_copy(comps, csize, zstart) ==
    LET zero_len == saturating_sub(IPV6_LEN, csize)
    IN  [k \in 1..COMPONENTS_LEN |->
            IF k - 1 >= zstart /\ k - 1 < zstart + zero_len THEN 0 ELSE comps[k]]

\* the zero-run splice of read_ip: ptr::copy moves the components from
\* zero_component_start on up by zero_len, ptr::write_bytes zeroes zero_len
\* components from zero_component_start on
splice_zero_run(comps, csize, zstart) ==
    LET zero_len == saturating_sub(IPV6_LEN, csize)
        src == zstart
        dst == saturating_add_u8(zstart, zero_len)
        count == saturating_sub(csize, zstart)
        copied == [k \in 1..COMPONENTS_LEN |->
                      IF k - 1 >= dst /\ k - 1 < dst + count
                      THEN comps[(k - dst) + src] ELSE comps[k]]
    IN  [k \in 1..COMPONENTS_LEN |->
            IF k - 1 >= zstart /\ k - 1 < zstart + zero_len THEN 0 ELSE copied[k]]

\* read_octet!: the first component above 255 among the four, 0 if none
first_octet_overflow(comps) ==
    IF \E k \in 1..4 : comps[k] > U8_MAX
    THEN comps[CHOOSE k \in 1..4 : comps[k] > U8_MAX /\ \A j \in 1..(k - 1) : comps[j] <= U8_MAX]
    ELSE 0

\* read_ip building the address from whatever number of components it has
read_ip_any_count(self) ==
    IF self.family = "V4"
    THEN IF first_octet_overflow(self.components) > 0
         THEN [self |-> self,
               res |-> Err(ErrorNum("Ipv4ComponentOverflow",
                                    first_octet_overflow(self.components)))]
         ELSE [self |-> self,
               res |-> Ok(IpAddrV4(Ipv4Addr_new(self.components[1], self.components[2],
                                                self.components[3], self.components[4])),
                          None)]
    ELSE IF self.family = "V6"
    THEN LET comps == IF self.components_size < IPV6_LEN /\ IS_IPV6_ZERO_SKIP \in self.flags
                      THEN splice_zero_run(self.components, self.components_size,
                                           self.zero_component_start)
                      ELSE self.components
         IN  [self |-> [self EXCEPT !.components = comps],
              res |-> Ok(IpAddrV6(Ipv6Addr_new(comps)), None)]
    ELSE IF self.state = "Initial"
    THEN [self |-> self, res |-> Err(Error("MissingIp"))]
    ELSE [self |-> self, res |-> Err(Error("InvalidIp"))]

\* read_ip: the parser it leaves and the Result it returns (in res)
read_ip(self) ==
    IF self.family = "V4"
    THEN IF self.components_size = IPV4_LEN
         THEN IF first_octet_overflow(self.components) > 0
              THEN [self |-> self,
                    res |-> Err(ErrorNum("Ipv4ComponentOverflow",
                                         first_octet_overflow(self.components)))]
              ELSE [self |-> self,
                    res |-> Ok(IpAddrV4(Ipv4Addr_new(self.components[1], self.components[2],
                                                     self.components[3], self.components[4])),
                               None)]
         ELSE [self |-> self,
               res |-> Err(ErrorNum("Ipv4InvalidComponentSize", self.components_size))]
    ELSE IF self.family = "V6"
    THEN IF self.components_size > IPV6_LEN
         THEN [self |-> self, res |-> Err(Error("InvalidIpv6"))]
         ELSE IF self.components_size < IPV6_LEN /\ IS_IPV6_ZERO_SKIP \notin self.flags
         THEN [self |-> self,
               res |-> Err(ErrorNum("Ipv6InvalidComponentSize", self.components_size))]
         ELSE LET comps == IF self.components_size < IPV6_LEN
                           THEN splice_zero_run(self.components, self.components_size,
                                                self.zero_component_start)
                           ELSE self.components
              IN  [self |-> [self EXCEPT !.components = comps],
                   res |-> Ok(IpAddrV6(Ipv6Addr_new(comps)), None)]
    ELSE IF self.state = "Initial"
    THEN [self |-> self, res |-> Err(Error("MissingIp"))]
    ELSE [self |-> self, res |-> Err(Error("InvalidIp"))]

on_digit(self, pos) ==
    IF self.state = "Digit" THEN Left(self, NoError)
    ELSE IF self.state = "V6Sep" /\ IS_IPV6_SEP_INITIAL \in self.flags
    THEN Left(self, Error("InvalidIpv6"))
    ELSE Left([self EXCEPT !.state = "Digit", !.start_digit_position = pos], NoError)

\* `self.state = V4Sep; result` after the match of on_v4_sep
then_v4_sep(r) == [r EXCEPT !.self.state = "V4Sep"]

\* on_v4_sep committing to IPv4 whatever the family was
on_v4_sep_any_family(self, pos) ==
    IF self.state = "Digit"
    THEN then_v4_sep(extract_component([self EXCEPT !.family = "V4"], pos))
    ELSE then_v4_sep(Left(self, Error("InvalidIpv4")))

on_v4_sep(self, pos) ==
    IF self.state = "Digit"
    THEN IF self.family = "V6" THEN Left(self, Error("InvalidIpv6"))
         ELSE IF self.family = "Unknown"
         THEN then_v4_sep(extract_component([self EXCEPT !.family = "V4"], pos))
         ELSE then_v4_sep(extract_component(self, pos))
    ELSE then_v4_sep(Left(self, Error("InvalidIpv4")))

\* `self.state = V6Sep; result` after the match of on_v6_sep
then_v6_sep(r) == [r EXCEPT !.self.state = "V6Sep"]

\* on_v6_sep recording every "::" it meets, a second one too
on_v6_sep_any_zero_skip(self, pos) ==
    IF self.state = "Digit"
    THEN IF self.family = "V4" THEN Left(self, Error("InvalidIpv4"))
         ELSE IF self.family = "Unknown"
         THEN then_v6_sep(extract_component([self EXCEPT !.family = "V6"], pos))
         ELSE then_v6_sep(extract_component(self, pos))
    ELSE IF self.state = "V6Sep"
    THEN Left([self EXCEPT
                  !.flags = (self.flags \ {IS_IPV6_SEP_INITIAL}) \cup {IS_IPV6_ZERO_SKIP},
                  !.zero_component_start = self.components_size,
                  !.family = "V6"],
              NoError)
    ELSE IF self.state = "Initial"
    THEN then_v6_sep(Left([self EXCEPT !.flags = self.flags \cup {IS_IPV6_SEP_INITIAL}],
                          NoError))
    ELSE then_v6_sep(Left(self, Error("InvalidIpv4")))

on_v6_sep(self, pos) ==
    IF self.state = "Digit"
    THEN IF self.family = "V4" THEN Left(self, Error("InvalidIpv4"))
         ELSE IF self.family = "Unknown"
         THEN then_v6_sep(extract_component([self EXCEPT !.family = "V6"], pos))
         ELSE then_v6_sep(extract_component(self, pos))
    ELSE IF self.state = "V6Sep"
    THEN IF IS_IPV6_ZERO_SKIP \in self.flags
         THEN Left(self, Error("Ipv6MultipleZeroAbbrv"))
         ELSE Left([self EXCEPT
                       !.flags = (self.flags \ {IS_IPV6_SEP_INITIAL}) \cup {IS_IPV6_ZERO_SKIP},
                       !.zero_component_start = self.components_size,
                       !.family = "V6"],
                   NoError)
    ELSE IF self.state = "Initial"
    THEN then_v6_sep(Left([self EXCEPT !.flags = self.flags \cup {IS_IPV6_SEP_INITIAL}],
                          NoError))
    ELSE then_v6_sep(Left(self, Error("InvalidIpv4")))

\* on_ip_end that does not tell an empty address part from a group alone
on_ip_end_no_missing_ip(self, pos) ==
    IF self.state = "Digit"
    THEN LET r == extract_component(self, pos)
         IN  IF r.err = NoError THEN read_ip(r.self)
             ELSE [self |-> r.self, res |-> Err(r.err)]
    ELSE IF self.state = "V4Sep"
    THEN [self |-> self, res |-> Err(Error("InvalidIpv4"))]
    ELSE IF self.state = "V6Sep" /\ IS_IPV6_ZERO_SKIP \in self.flags
    THEN IF self.components_size = 0
         THEN [self |-> self, res |-> Ok(IpAddrV6(Zero(V6_BITS_LEN)), None)]
         ELSE read_ip(self)
    ELSE IF self.state = "V6Sep"
    THEN [self |-> self, res |-> Err(Error("InvalidIpv6"))]
    ELSE [self |-> self, res |-> Err(Error("InvalidIp"))]

\* on_ip_end: the parser it leaves and the Result it returns (in res)
on_ip_end(self, pos) ==
    IF self.state = "Digit"
    THEN LET r == extract_component(self, pos)
         IN  IF r.err = NoError THEN read_ip(r.self)
             ELSE [self |-> r.self, res |-> Err(r.err)]
    ELSE IF self.state = "V4Sep"
    THEN [self |-> self, res |-> Err(Error("InvalidIpv4"))]
    ELSE IF self.state = "V6Sep" /\ IS_IPV6_ZERO_SKIP \in self.flags
    THEN IF self.components_size = 0
         THEN [self |-> self, res |-> Ok(IpAddrV6(Zero(V6_BITS_LEN)), None)]
         ELSE read_ip(self)
    ELSE IF self.state = "V6Sep"
    THEN [self |-> self, res |-> Err(Error("InvalidIpv6"))]
    ELSE [self |-> self, res |-> Err(Error("MissingIp"))]

\* the text after the '/' at pos
cidr_text(self, pos) ==
    LET digit_pos == pos + 1
    IN  Slice(self.text, digit_pos, saturating_sub(Len(self.text), digit_pos))

\* on_cidr_sep: Ok(prefix) as Some(prefix) in res.prefix, or Err
on_cidr_sep(self, pos) ==
    LET digit_pos == pos + 1
        t == cidr_text(self, pos)
        r == from_str_radix(t, 10, U8_MAX)
    IN  IF digit_pos >= Len(self.text) THEN Err(Error("MissingCidr"))
        ELSE IF r < 0 THEN Err(ErrorText("InvalidCidr", t))
        ELSE IF self.family = "V4"
        THEN IF r > V4_BITS_LEN THEN Err(ErrorNum("Ipv4CidrPrefixOverflow", r))
             ELSE Ok(NoIp, Some(r))
        ELSE IF self.family = "V6"
        THEN IF r > V6_BITS_LEN THEN Err(ErrorNum("Ipv6CidrPrefixOverflow", r))
             ELSE Ok(NoIp, Some(r))
        ELSE Err(ErrorText("InvalidCidr", t))

\* Parser::parse from offset i on: the loop over the bytes, then on_ip_end
RECURSIVE parse(_, _)
parse(self, i) ==
    IF i < Len(self.text)
    THEN LET ch == self.text[i + 1]
         IN  IF is_ascii_hexdigit(ch)
             THEN LET r == on_digit(self, i)
                  IN  IF r.err # NoError THEN Err(r.err) ELSE parse(r.self, i + 1)
             ELSE IF ch = "."
             THEN LET r == on_v4_sep(self, i)
                  IN  IF r.err # NoError THEN Err(r.err) ELSE parse(r.self, i + 1)
             ELSE IF ch = ":"
             THEN LET r == on_v6_sep(self, i)
                  IN  IF r.err # NoError THEN Err(r.err) ELSE parse(r.self, i + 1)
             ELSE IF ch = "/"
             THEN LET e == on_ip_end(self, i)
                      c == on_cidr_sep(e.self, i)
                  IN  IF e.res.tag = "Err" THEN e.res
                      ELSE IF c.tag = "Err" THEN c
                      ELSE Ok(e.res.ip, c.prefix)
             ELSE Err(ErrorChar(ch, i))
    ELSE on_ip_end(self, i).res

\* parse_ip(text) as one call
parse_ip(t) == parse(Parser(t), 0)

\* Cidr::new_single is called by parse_cidr and defined in no source file
\* at hand; by parse_cidr's documentation it is the block of the single
\* address, the prefix BITS_LEN
new_single(fam, addr) == [fam |-> fam, addr |-> addr, prefix |-> BITS_LEN(fam)]

\* parse_cidr taking a missing prefix for the prefix 0
parse_cidr_missing_prefix_zero(r) ==
    IF r.tag = "Err" THEN [tag |-> "Err", cidr |-> None, err |-> r.err]
    ELSE IF r.ip.fam = "V4"
    THEN [tag |-> "Ok",
          cidr |-> Cidr_new_v4(r.ip.bits, IF r.prefix = None THEN 0 ELSE r.prefix.val),
          err |-> NoError]
    ELSE [tag |-> "Ok",
          cidr |-> Cidr_new_v6(r.ip.bits, IF r.prefix = None THEN 0 ELSE r.prefix.val),
          err |-> NoError]

\* parse_cidr on what parse_ip returned: Ok(Option<Cidr>) as
\* [tag |-> "Ok", cidr |-> Some/None], or the error
parse_cidr(r) ==
    IF r.tag = "Err" THEN [tag |-> "Err", cidr |-> None, err |-> r.err]
    ELSE IF r.ip.fam = "V4" /\ r.prefix = None
    THEN [tag |-> "Ok", cidr |-> Some(new_single("V4", r.ip.bits)), err |-> NoError]
    ELSE IF r.ip.fam = "V4"
    THEN [tag |-> "Ok", cidr |-> Cidr_new_v4(r.ip.bits, r.prefix.val), err |-> NoError]
    ELSE IF r.prefix = None
    THEN [tag |-> "Ok", cidr |-> Some(new_single("V6", r.ip.bits)), err |-> NoError]
    ELSE [tag |-> "Ok", cidr |-> Cidr_new_v6(r.ip.bits, r.prefix.val), err |-> NoError]

----------------------------------------------------------------------------
(* The parser run: parse_cidr(text), one action for each turn of the loop *)
(* of Parser::parse                                                        *)

\* bounds of the input texts
MaxV4Components == 5
MaxCompressedGroups == 7
MaxFullGroups == 9
MaxShortGroups == 2
MaxPrefixNumeral == 260
MaxUnexpectedOffset == 9

\* the sequences of at most n elements of S
SeqsUpTo(S, n) == UNION {[1..m -> S] : m \in 0..n}

\* a1:...:ai::b1:...:bj
Compressed(pre, post) == Join(pre, <<":">>) \o <<":", ":">> \o Join(post, <<":">>)

\* dotted texts: 1 to MaxV4Components components, in range, above 255 and
\* not decimal
V4Comps == {<<"1">>, <<"2", "5", "5">>, <<"2", "5", "6">>, <<"9", "0", "0">>, <<"f">>}

V4Texts == {Join(cs, <<".">>) : cs \in SeqsUpTo(V4Comps, MaxV4Components) \ {<<>>}}

\* IPv6 texts with one "::" and with none
V6Groups == {<<"1">>, <<"f", "f", "f", "f">>}

V6CompressedTexts ==
    UNION { { Compressed(pre, post) :
                post \in SeqsUpTo(V6Groups, MaxCompressedGroups - Len(pre)) } :
            pre \in SeqsUpTo(V6Groups, MaxCompressedGroups) }

V6FullTexts == {Join(gs, <<":">>) : gs \in SeqsUpTo(V6Groups, MaxFullGroups) \ {<<>>}}

\* short IPv6 texts, also with groups of five hex digits, as they are and
\* with a ':' before, a ':', a "::" or a '.' after
LongGroups == {<<"0", "0", "0", "0", "1">>, <<"1", "f", "f", "f", "f">>}

ShortTexts ==
    LET G == V6Groups \cup LongGroups
    IN  UNION { { Compressed(pre, post) : post \in SeqsUpTo(G, MaxShortGroups - Len(pre)) } :
                pre \in SeqsUpTo(G, MaxShortGroups) }
        \cup {Join(gs, <<":">>) : gs \in SeqsUpTo(G, MaxShortGroups)}

OddTexts ==
    UNION { {t, <<":">> \o t, t \o <<":">>, t \o <<":", ":">>, t \o <<".">>} : t \in ShortTexts }

\* texts of tests/ipv4.rs and tests/ipv6.rs with other bytes
TestTexts ==
    { <<"-", "1", ".">>, <<"%", "1", ".">>, <<"1", ".", ".">>,
      <<"-", "f", ":">>, <<"%", "f", ":", ":">>, <<"0", ":", ":", ":">> }

\* addresses followed by '/' and a suffix: every numeral up to
\* MaxPrefixNumeral, and suffixes that are no plain numeral
SuffixBases ==
    { <<"1", ".", "1", ".", "1", ".", "1">>,
      <<"2", "5", "5", ".", "1", ".", "2", "5", "5", ".", "1">>,
      <<>>, <<"1">>,
      <<"1", ".", "1">>, <<"2", "5", "6", ".", "1", ".", "1", ".", "1">>, <<"1", ":", "1">> }
    \cup { Compressed(pre, post) : pre \in SeqsUpTo(V6Groups, 1), post \in SeqsUpTo(V6Groups, 1) }

Suffixes ==
    {DecStr(n) : n \in 0..MaxPrefixNumeral}
    \cup { <<>>, <<"+", "5">>, <<"-", "1">>, <<"1", "f">>, <<"0", "0", "7">>,
           <<"5", "/">>, <<"/", "5">>, <<"+">> }

SuffixTexts == {b \o <<"/">> \o x : b \in SuffixBases, x \in Suffixes}

\* texts with the separators of both families
MixedTexts ==
    { <<"1", ".", "1", ":", "1">>, <<"1", ".", ":">>, <<"1", ".", "1", ".", "1", ".", "1", ":">>,
      <<"1", ".", "1", ":", ":">>, <<"1", ":", "1", ".", "1">>, <<"1", ":", ".">>,
      <<":", ":", "1", ".", "1", ".", "1", ".", "1">>, <<":", ":", ".">>,
      <<":", ":", "f", "f", "f", "f", ":", "1", ".", "1", ".", "1", ".", "1">>,
      <<":", ".">>, <<".", ":">>, <<".", "1">> }

\* texts with one component more than the family holds, the last one
\* ended by the end of the text, by '/' or by the separator
OverlongTexts ==
    LET v4 == <<"1", ".", "1", ".", "1", ".", "1", ".">>
        v6 == <<"1", ":", "1", ":", "1", ":", "1", ":", "1", ":", "1", ":", "1", ":", "1", ":">>
        z6 == <<"1", ":", ":", "1", ":", "1", ":", "1", ":", "1", ":", "1", ":", "1", ":", "1", ":">>
        last == { <<"1">>, <<"9", "0", "0">>, <<"f">>, <<"1", "f", "f", "f", "f">>,
                  <<"1", "/", "5">>, <<"f", "/", "5">>, <<"1", "f", "f", "f", "f", "/">> }
    IN  {v4 \o x : x \in last} \cup {v6 \o x : x \in last} \cup {z6 \o x : x \in last}

\* bytes that are no hex digit, '.', ':' or '/': ASCII ones, and "xC3" for
\* the one byte 0xC3, which is not ASCII
OtherBytes == {"-", "+", "%", "g", " ", "xC3"}

\* texts with one such byte put at any offset of an address, with a prefix
\* and without
UnexpectedTexts ==
    LET bases == { <<"1", ".", "1", ".", "1", ".", "1">>, <<"1", ":", ":", "f">>,
                   <<"1", ".", "1", ".", "1", ".", "1", "/", "5">>, <<":", ":", "/", "5">> }
    IN  UNION { { SubSeq(t, 1, k) \o <<b>> \o SubSeq(t, k + 1, Len(t)) :
                    k \in {j \in 0..MaxUnexpectedOffset : j <= Len(t)}, b \in OtherBytes } :
                t \in bases }

Texts ==
    V4Texts \cup V6CompressedTexts \cup V6FullTexts \cup OddTexts
    \cup TestTexts \cup SuffixTexts \cup MixedTexts \cup OverlongTexts
    \cup UnexpectedTexts

EngineIdle ==
    /\ cidr = None
    /\ op = "none"
    /\ arg = None
    /\ ret = None

\* the Parser struct held in the variables
Self ==
    [ state |-> state,
      flags |-> flags,
      family |-> family,
      components_size |-> components_size,
      components |-> components,
      zero_component_start |-> zero_component_start,
      start_digit_position |-> start_digit_position,
      text |-> text ]

SetSelf(s) ==
    /\ state' = s.state
    /\ flags' = s.flags
    /\ family' = s.family
    /\ components_size' = s.components_size
    /\ components' = s.components
    /\ zero_component_start' = s.zero_component_start
    /\ start_digit_position' = s.start_digit_position
    /\ text' = s.text

\* the texts of the runs checked for termination: the short IPv6 texts,
\* the texts of the tests, with the separators of both families, with a
\* component too many and with other bytes, an address of eight groups, and
\* the addresses of SuffixBases alone, with a prefix and with suffixes that
\* are none
TermTexts ==
    OddTexts \cup TestTexts \cup MixedTexts \cup OverlongTexts \cup UnexpectedTexts
    \cup SuffixBases \cup {Join([k \in 1..IPV6_LEN |-> <<"f", "f", "f", "f">>], <<":">>)}
    \cup { b \o <<"/">> \o x :
             b \in SuffixBases,
             x \in {<<>>, <<"5">>, <<"3", "3">>, <<"+", "5">>, <<"5", "/">>, <<"/", "5">>} }

\* parse_ip(text) for a text of T: the parser built, Parser::parse about
\* to start
InitOn(T) ==
    /\ pc = "parse"
    /\ text \in T
    /\ state = Parser(text).state
    /\ flags = Parser(text).flags
    /\ family = Parser(text).family
    /\ components_size = Parser(text).components_size
    /\ components = Parser(text).components
    /\ zero_component_start = Parser(text).zero_component_start
    /\ start_digit_position = Parser(text).start_digit_position
    /\ idx = 0
    /\ result = [tag |-> "Pending"]
    /\ parsed = [tag |-> "Pending"]
    /\ EngineIdle

Init == InitOn(Texts)

InitTerm == InitOn(TermTexts)

\* a turn of the loop that goes on without `idx = idx + 1`
Turn_no_advance(r) ==
    /\ SetSelf(r.self)
    /\ IF r.err # NoError
       THEN /\ result' = Err(r.err)
            /\ pc' = "returned"
       ELSE /\ result' = result
            /\ pc' = pc
    /\ idx' = idx
    /\ UNCHANGED parsed
    /\ UNCHANGED engineVars

\* a turn of the loop whose handler returned r: return the error, or go on
\* to the next byte
Turn(r) ==
    /\ SetSelf(r.self)
    /\ IF r.err # NoError
       THEN /\ result' = Err(r.err)
            /\ pc' = "returned"
            /\ idx' = idx
       ELSE /\ result' = result
            /\ pc' = pc
            /\ idx' = idx + 1
    /\ UNCHANGED parsed
    /\ UNCHANGED engineVars

\* Parser::parse returns res
Return_parse(s, res) ==
    /\ SetSelf(s)
    /\ result' = res
    /\ pc' = "returned"
    /\ UNCHANGED <<idx, parsed>>
    /\ UNCHANGED engineVars

InLoop == pc = "parse" /\ idx < Len(text)

ParseDigit ==
    /\ InLoop
    /\ is_ascii_hexdigit(text[idx + 1])
    /\ \E r \in {on_digit(Self, idx)} : Turn(r)

ParseV4Sep ==
    /\ InLoop
    /\ text[idx + 1] = "."
    /\ \E r \in {on_v4_sep(Self, idx)} : Turn(r)

ParseV6Sep ==
    /\ InLoop
    /\ text[idx + 1] = ":"
    /\ \E r \in {on_v6_sep(Self, idx)} : Turn(r)

\* the '/' branch looking at the prefix before it finishes the address
ParseCidrSep_prefix_first ==
    /\ InLoop
    /\ text[idx + 1] = "/"
    /\ \E e \in {on_ip_end(Self, idx)} :
          \E c \in {on_cidr_sep(Self, idx)} :
             IF c.tag = "Err" THEN Return_parse(e.self, c)
             ELSE IF e.res.tag = "Err" THEN Return_parse(e.self, e.res)
             ELSE Return_parse(e.self, Ok(e.res.ip, c.prefix))

ParseCidrSep ==
    /\ InLoop
    /\ text[idx + 1] = "/"
    /\ \E e \in {on_ip_end(Self, idx)} :
          \E c \in {on_cidr_sep(e.self, idx)} :
             IF e.res.tag = "Err" THEN Return_parse(e.self, e.res)
             ELSE IF c.tag = "Err" THEN Return_parse(e.self, c)
             ELSE Return_parse(e.self, Ok(e.res.ip, c.prefix))

ParseUnexpected ==
    /\ InLoop
    /\ ~is_ascii_hexdigit(text[idx + 1])
    /\ text[idx + 1] \notin {".", ":", "/"}
    /\ Return_parse(Self, Err(ErrorChar(text[idx + 1], idx)))

ParseEnd ==
    /\ pc = "parse"
    /\ idx >= Len(text)
    /\ \E e \in {on_ip_end(Self, idx)} : Return_parse(e.self, e.res)

\* parse_cidr on what parse_ip returned
ParseCidr ==
    /\ pc = "returned"
    /\ pc' = "done"
    /\ parsed' = parse_cidr(result)
    /\ UNCHANGED <<text, idx, state, family, flags, components_size, components,
                   zero_component_start, start_digit_position, result>>
    /\ UNCHANGED engineVars

Next ==
    \/ ParseDigit
    \/ ParseV4Sep
    \/ ParseV6Sep
    \/ ParseCidrSep
    \/ ParseUnexpected
    \/ ParseEnd
    \/ ParseCidr

Spec == Init /\ [][Next]_vars

\* parse_cidr is sequential code: a step that can be taken is taken
SpecTerm == InitTerm /\ [][Next]_vars /\ WF_vars(Next)

\* the crate as a whole: a run is a call on the block engine or a parse
SpecCrate == (EngineInit \/ Init) /\ [][EngineNext \/ Next]_vars

----------------------------------------------------------------------------
(* Properties of the parser (checked under Spec).  The texts are read     *)
(* here by the grammar of the address notations, not by the parser.        *)

\* the position of the first sep in t from position k on, 0 if none
RECURSIVE IndexOf(_, _, _)
IndexOf(t, sep, k) ==
    IF k > Len(t) THEN 0
    ELSE IF t[k] = sep THEN k
    ELSE IndexOf(t, sep, k + 1)

\* the pieces of t between the occurrences of sep
RECURSIVE SplitOn(_, _)
SplitOn(t, sep) ==
    LET k == IndexOf(t, sep, 1)
    IN  IF k = 0 THEN <<t>>
        ELSE <<SubSeq(t, 1, k - 1)>> \o SplitOn(SubSeq(t, k + 1, Len(t)), sep)

HasSlash(t) == IndexOf(t, "/", 1) > 0

\* the text before the first '/', and the text after it
AddrPart(t) == IF HasSlash(t) THEN SubSeq(t, 1, IndexOf(t, "/", 1) - 1) ELSE t

SuffixPart(t) == SubSeq(t, IndexOf(t, "/", 1) + 1, Len(t))

IsDecDigit(ch) == \E k \in 1..10 : DecChars[k] = ch

IsHexDigit(ch) ==
    \/ IsDecDigit(ch)
    \/ \E k \in 1..6 : LowerHexChars[k] = ch \/ UpperHexChars[k] = ch

\* a decimal numeral: one or more decimal digits
IsDec(t) == Len(t) >= 1 /\ \A k \in 1..Len(t) : IsDecDigit(t[k])

\* a hex group: 1 to 4 hex digits
IsHexGroup(t) == Len(t) \in 1..4 /\ \A k \in 1..Len(t) : IsHexDigit(t[k])

\* the value of a numeral in the radix, counted no further than 1000000
RECURSIVE NumeralValue(_, _, _)
NumeralValue(t, radix, acc) ==
    IF t = <<>> \/ acc >= 1000000 THEN acc
    ELSE NumeralValue(Tail(t), radix, (acc * radix) + to_digit(Head(t)))

DecValue(t) == NumeralValue(t, 10, 0)

HexValue(t) == NumeralValue(t, 16, 0)

\* the groups of a1:...:an, none for the empty text
Groups(t) == IF t = <<>> THEN <<>> ELSE SplitOn(t, ":")

\* the positions where a "::" starts
DoubleColons(t) == {k \in 1..(Len(t) - 1) : t[k] = ":" /\ t[k + 1] = ":"}

\* the groups before and after the "::" of a text that has exactly one
PreGroups(t) ==
    LET k == CHOOSE j \in DoubleColons(t) : TRUE
    IN  Groups(SubSeq(t, 1, k - 1))

PostGroups(t) ==
    LET k == CHOOSE j \in DoubleColons(t) : TRUE
    IN  Groups(SubSeq(t, k + 2, Len(t)))

\* a1:...:ai::b1:...:bj with exactly one "::", hex groups and i + j < 8
IsCompressedV6(t) ==
    /\ Cardinality(DoubleColons(t)) = 1
    /\ \A k \in 1..Len(PreGroups(t)) : IsHexGroup(PreGroups(t)[k])
    /\ \A k \in 1..Len(PostGroups(t)) : IsHexGroup(PostGroups(t)[k])
    /\ Len(PreGroups(t)) + Len(PostGroups(t)) < 8

\* eight hex groups separated by ':'
IsFullV6(t) ==
    /\ Len(Groups(t)) = 8
    /\ \A k \in 1..8 : IsHexGroup(Groups(t)[k])

\* four decimal components separated by '.'
IsDottedDecimal(t) ==
    /\ Len(SplitOn(t, ".")) = 4
    /\ \A k \in 1..4 : IsDec(SplitOn(t, ".")[k])

\* octet "." octet "." octet "." octet
IsValidV4(t) ==
    /\ IsDottedDecimal(t)
    /\ \A k \in 1..4 : DecValue(SplitOn(t, ".")[k]) <= 255

IsValidV6(t) == IsFullV6(t) \/ IsCompressedV6(t)

\* the eight segments a compressed text denotes
CompressedSegments(t) ==
    LET pre == PreGroups(t)
        post == PostGroups(t)
        gap == 8 - (Len(pre) + Len(post))
    IN  [k \in 1..8 |->
            IF k <= Len(pre) THEN HexValue(pre[k])
            ELSE IF k <= Len(pre) + gap THEN 0
            ELSE HexValue(post[k - (Len(pre) + gap)])]

\* parse_ip has returned
Parsed == result.tag # "Pending"

\* C3: a dotted IPv4 text with a decimal component above 255 fails with
\* InvalidComponent carrying the text of that component (the first such).
C3_OctetAbove255IsInvalidComponent ==
    LET cs == SplitOn(text, ".")
        over == {k \in 1..4 : DecValue(cs[k]) > 255}
        first == CHOOSE k \in over : \A j \in over : k <= j
    IN  (Parsed /\ ~HasSlash(text) /\ IsDottedDecimal(text) /\ over # {})
        => result = Err(ErrorText("InvalidComponent", cs[first]))

\* C4: parse_cidr returns Ok(None) when the text is a valid address, '/'
\* and a numeral above the address width, and Err only for an invalid
\* address or an invalid prefix.
C4_PrefixOverflowIsOkNone ==
    LET a == AddrPart(text)
        n == SuffixPart(text)
        width == IF IsValidV4(a) THEN V4_BITS_LEN ELSE V6_BITS_LEN
    IN  (pc = "done" /\ HasSlash(text) /\ (IsValidV4(a) \/ IsValidV6(a)) /\ IsDec(n))
        => /\ DecValue(n) > width => (parsed.tag = "Ok" /\ parsed.cidr = None)
           /\ DecValue(n) <= width => parsed.tag = "Ok"

\* C5: after a valid address and '/', a decimal numeral above the family's
\* width, however large, fails with Ipv4CidrPrefixOverflow /
\* Ipv6CidrPrefixOverflow, and a numeral within 0..=width is returned as
\* the prefix beside the address.
C5_PrefixAboveWidthIsOverflow ==
    LET a == AddrPart(text)
        n == SuffixPart(text)
    IN  (Parsed /\ HasSlash(text) /\ (IsValidV4(a) \/ IsValidV6(a)) /\ IsDec(n))
        => IF IsValidV4(a)
           THEN IF DecValue(n) > V4_BITS_LEN
                THEN result.tag = "Err" /\ result.err.kind = "Ipv4CidrPrefixOverflow"
                ELSE result.tag = "Ok" /\ result.ip.fam = "V4"
                     /\ result.prefix = Some(DecValue(n))
           ELSE IF DecValue(n) > V6_BITS_LEN
                THEN result.tag = "Err" /\ result.err.kind = "Ipv6CidrPrefixOverflow"
                ELSE result.tag = "Ok" /\ result.ip.fam = "V6"
                     /\ result.prefix = Some(DecValue(n))

\* C6: a1:...:ai::b1:...:bj with one "::" and i + j < 8 parses to the
\* address whose segments are a1..ai, 8-i-j zeros, b1..bj in order; the
\* "::" may lead or trail, and "::" alone is the all-zero address.
C6_ZeroRunSplice ==
    (Parsed /\ ~HasSlash(text) /\ IsCompressedV6(text))
    => /\ result.tag = "Ok"
       /\ result.ip.fam = "V6"
       /\ result.prefix = None
       /\ \A k \in 1..8 : result.ip.bits[k] = CompressedSegments(text)[k]

C6_Witness ==
    /\ Parsed
    /\ text = Compressed(<<<<"1">>, <<"f", "f", "f", "f">>>>,
                         <<<<"f", "f", "f", "f">>, <<"1">>, <<"1">>>>)
    /\ IsCompressedV6(text)
    /\ result.tag = "Ok"
    /\ result.ip.bits = <<1, 65535, 0, 0, 0, 65535, 1, 1>>

\* C7: an accepted IPv6 address matches the grammar: every single ':'
\* (one not part of the "::") stands directly between two hex digits, so
\* no accepted address part begins or ends with a single ':'.
C7_SingleColonBetweenGroups ==
    LET a == AddrPart(text)
        single(k) == /\ a[k] = ":"
                     /\ (k = 1 \/ a[k - 1] # ":")
                     /\ (k = Len(a) \/ a[k + 1] # ":")
    IN  (Parsed /\ result.tag = "Ok" /\ result.ip.fam = "V6")
        => \A k \in 1..Len(a) :
              single(k) => /\ k > 1
                           /\ k < Len(a)
                           /\ IsHexDigit(a[k - 1])
                           /\ IsHexDigit(a[k + 1])

\* C8: every accepted IPv6 component has 1 to 4 hex digits, and a text
\* whose first group has 5 or more hex digits is rejected with
\* InvalidComponent carrying that group.
C8_HexGroupAtMostFourDigits ==
    LET a == AddrPart(text)
        gs == SplitOn(a, ":")
        hex(g) == \A k \in 1..Len(g) : IsHexDigit(g[k])
    IN  /\ (Parsed /\ result.tag = "Ok" /\ result.ip.fam = "V6")
           => \A k \in 1..Len(gs) : Len(gs[k]) <= 4
        /\ (Parsed /\ Len(gs) >= 2 /\ hex(gs[1]) /\ Len(gs[1]) >= 5)
           => result = Err(ErrorText("InvalidComponent", gs[1]))

\* C11: new / new_v4 / new_v6 return None exactly when prefix > BITS_LEN,
\* and otherwise a value whose addr() and prefix() are the arguments; so
\* every Cidr built by a constructor or returned by parse_cidr has
\* prefix <= BITS_LEN of its family.
C11_PrefixWithinBitsLen ==
    LET bits(fam) == IF fam = "V4" THEN V4_BITS_LEN ELSE V6_BITS_LEN
    IN  /\ (pc = "return" /\ op \in {"new", "new_v4", "new_v6"})
           => /\ (ret = None) <=> (arg.prefix > bits(arg.ip.fam))
              /\ ret # None => /\ Cidr_addr(ret.val) = arg.ip
                               /\ Cidr_prefix(ret.val) = arg.prefix
                               /\ ret.val.fam = arg.ip.fam
        /\ cidr # None => cidr.prefix <= bits(cidr.fam)
        /\ (pc = "done" /\ parsed.tag = "Ok" /\ parsed.cidr # None)
           => parsed.cidr.val.prefix <= bits(parsed.cidr.val.fam)

C11_Witness ==
    /\ pc = "return"
    /\ op = "new_v4"
    /\ arg.prefix = V4_BITS_LEN + 1
    /\ ret = None

\* the byte at offset j is a ':' directly after a ':' when a "::" stands
\* before it
SecondAbbrvAt(t, j) ==
    /\ j >= 1
    /\ j < Len(t)
    /\ t[j + 1] = ":"
    /\ t[j] = ":"
    /\ \E k \in 1..(j - 1) : t[k] = ":" /\ t[k + 1] = ":"

\* C12: at most one "::" is legal: the ':' that completes a second one is
\* never passed, and parse_ip returns Ipv6MultipleZeroAbbrv there,
\* whatever follows.
C12_SecondZeroAbbrvFails ==
    /\ \A j \in 0..(idx - 1) : ~SecondAbbrvAt(text, j)
    /\ (Parsed /\ SecondAbbrvAt(text, idx))
       => result = Err(Error("Ipv6MultipleZeroAbbrv"))

C12_Witness ==
    /\ Parsed
    /\ text = <<"1", ":", ":", "1", ":", ":">>
    /\ idx = 5
    /\ result = Err(Error("Ipv6MultipleZeroAbbrv"))

\* a '.' was accepted before offset j
CommittedV4Before(t, j) == \E k \in 1..j : t[k] = "."

\* a ':' after a hex group, or a "::", was accepted before offset j
CommittedV6Before(t, j) == \E k \in 2..j : t[k] = ":"

\* the byte at offset j is the separator of the other family
MismatchAt(t, j) ==
    /\ j < Len(t)
    /\ \/ t[j + 1] = ":" /\ CommittedV4Before(t, j)
       \/ t[j + 1] = "." /\ CommittedV6Before(t, j)

\* C13: once a family is committed, the separator of the other family is
\* never passed: a ':' after commitment to IPv4 returns InvalidIpv4 and a
\* '.' after commitment to IPv6 returns InvalidIpv6, in every parser state.
C13_OtherSeparatorIsMismatch ==
    /\ \A j \in 0..(idx - 1) : ~MismatchAt(text, j)
    /\ (Parsed /\ MismatchAt(text, idx) /\ text[idx + 1] = ":")
       => result = Err(Error("InvalidIpv4"))
    /\ (Parsed /\ MismatchAt(text, idx) /\ text[idx + 1] = ".")
       => result = Err(Error("InvalidIpv6"))

\* the number of hex groups that begin before offset j
HexRunsBefore(t, j) ==
    Cardinality({k \in 1..j : IsHexDigit(t[k]) /\ (k = 1 \/ ~IsHexDigit(t[k - 1]))})

\* the n-th component of a text committed to the family of sep ends at
\* offset j: the byte before is a hex digit, and at j stands the separator,
\* a '/' or the end of the text
EndsComponentAt(t, j, n, sep) ==
    /\ j >= 1
    /\ j <= Len(t)
    /\ IsHexDigit(t[j])
    /\ j = Len(t) \/ t[j + 1] \in {sep, "/"}
    /\ \E k \in 1..j : t[k] = sep
    /\ HexRunsBefore(t, j) = n

C16_UnknownFamilyAtEnd ==
    LET a == AddrPart(text)
    IN  /\ (Parsed /\ a = <<>>)
           => family = "Unknown" /\ result = Err(Error("MissingIp"))
        /\ (Parsed /\ a # <<>> /\ \A k \in 1..Len(a) : IsHexDigit(a[k]))
           => family = "Unknown" /\ result = Err(Error("InvalidIp"))

C16_Witness ==
    /\ Parsed
    /\ text = <<"1", "/", "5">>
    /\ family = "Unknown"
    /\ result = Err(Error("InvalidIp"))

\* a byte that is no hex digit, '.', ':' or '/'
IsOtherByte(ch) == ~IsHexDigit(ch) /\ ch \notin {".", ":", "/"}

\* the offset of the first such byte after the '/' of t, when the address
\* before the '/' is valid and only decimal digits stand between; -1 if
\* there is none
OtherByteInSuffix(t) ==
    LET slash == IndexOf(t, "/", 1)
        odd == {j \in slash..(Len(t) - 1) :
                    /\ IsOtherByte(t[j + 1])
                    /\ \A k \in (slash + 1)..j : IsDecDigit(t[k])}
    IN  IF HasSlash(t) /\ (IsValidV4(AddrPart(t)) \/ IsValidV6(AddrPart(t))) /\ odd # {}
        THEN CHOOSE j \in odd : TRUE
        ELSE -1

C18_SuffixIsDecimalDigits ==
    LET a == AddrPart(text)
        n == SuffixPart(text)
    IN  (Parsed /\ HasSlash(text) /\ (IsValidV4(a) \/ IsValidV6(a)))
        => /\ n = <<>> => result = Err(Error("MissingCidr"))
           /\ (n # <<>> /\ ~IsDec(n)) => result = Err(ErrorText("InvalidCidr", n))
           /\ result.tag = "Ok" => IsDec(n)

\* C19: the address part is settled before and independently of the
\* suffix: if parse_ip(t) fails with e for a text t without '/', then
\* parse_ip(t "/" n) fails with the same e for every n, and if parse_ip(t)
\* is (ip, None) then parse_ip(t "/" n) is (ip, Some(n)) for every decimal
\* n within the width of the family.
C19_AddressBeforeSuffix ==
    (Parsed /\ HasSlash(text))
    => LET t == AddrPart(text)
           n == SuffixPart(text)
           r == parse_ip(t)
       IN  /\ r.tag = "Err" => result = r
           /\ r.tag = "Ok" => r.prefix = None
           /\ (r.tag = "Ok" /\ IsDec(n) /\ DecValue(n) <= BITS_LEN(r.ip.fam))
              => result = Ok(r.ip, Some(DecValue(n)))

C19_Witness ==
    /\ Parsed
    /\ text = <<"2", "5", "6", ".", "1", ".", "1", ".", "1", "/", "3", "3">>
    /\ parse_ip(<<"2", "5", "6", ".", "1", ".", "1", ".", "1">>)
           = Err(ErrorNum("Ipv4ComponentOverflow", 256))
    /\ result = Err(ErrorNum("Ipv4ComponentOverflow", 256))

\* C20: round trip: the text Display writes for a Cidr built by a
\* constructor parses with parse_cidr to Ok(Some(c)) with the same
\* address and the same prefix.
C20_DisplayParseRoundTrip ==
    (pc = "done" /\ op = "to_string")
    => /\ parsed.tag = "Ok"
       /\ parsed.cidr # None
       /\ Cidr_addr(parsed.cidr.val) = Cidr_addr(cidr)
       /\ Cidr_prefix(parsed.cidr.val) = Cidr_prefix(cidr)

\* the address a valid text without '/' denotes
DenotedAddr(t) ==
    IF IsValidV4(t)
    THEN IpAddrV4([k \in 1..4 |-> DecValue(SplitOn(t, ".")[k])])
    ELSE IF IsFullV6(t)
    THEN IpAddrV6([k \in 1..8 |-> HexValue(Groups(t)[k])])
    ELSE IpAddrV6(CompressedSegments(t))

\* C21: for a valid address with no '/' suffix parse_cidr returns
\* Ok(Some(c)) with c the single-address block: prefix 32 for IPv4 and 128
\* for IPv6, c.addr() the parsed address and c.size() = 1.
C21_NoSuffixIsSingleAddressBlock ==
    (pc = "done" /\ ~HasSlash(text) /\ (IsValidV4(text) \/ IsValidV6(text)))
    => /\ result.tag = "Ok"
       /\ result.prefix = None
       /\ parsed.tag = "Ok"
       /\ parsed.cidr # None
       /\ LET c == parsed.cidr.val
          IN  /\ c.fam = (IF IsValidV4(text) THEN "V4" ELSE "V6")
              /\ Cidr_prefix(c) = (IF IsValidV4(text) THEN V4_BITS_LEN ELSE V6_BITS_LEN)
              /\ Cidr_addr(c) = result.ip
              /\ Cidr_addr(c).fam = DenotedAddr(text).fam
              /\ \A k \in DOMAIN DenotedAddr(text).bits :
                    Cidr_addr(c).bits[k] = DenotedAddr(text).bits[k]
              /\ Cidr_size(c) = One(V6_BITS_LEN)

C21_Witness ==
    /\ pc = "done"
    /\ text = <<"2", "5", "5", ".", "1", ".", "2", "5", "5", ".", "1">>
    /\ parsed.tag = "Ok"
    /\ parsed.cidr = Some([fam |-> "V4", addr |-> Ipv4Addr_new(255, 1, 255, 1),
                           prefix |-> V4_BITS_LEN])
    /\ Cidr_size(parsed.cidr.val) = One(V6_BITS_LEN)

\* C22: contains of the dual-family Cidr answers false for an address of
\* the other family, for every block and address, and never fails; for an
\* address of the same family it answers (addr & mask(prefix)) ==
\* network_addr, the family-level result.
C22_ContainsAcrossFamilies ==
    Returned("contains") =>
        LET W == BITS_LEN(cidr.fam)
        IN  /\ ret \in BOOLEAN
            /\ arg.fam # cidr.fam => ret = FALSE
            /\ arg.fam = cidr.fam
               => /\ ret = cidr_contains(cidr, arg.bits)
                  /\ ret = (NetBits(arg.bits, cidr.prefix, W) = NetBits(cidr.addr, cidr.prefix, W))

C22_Witness ==
    /\ Returned("contains")
    /\ cidr.fam = "V4"
    /\ cidr.prefix = 0
    /\ arg.fam = "V6"
    /\ AsU32(arg.bits) = cidr.addr
    /\ ret = FALSE

\* x is a value of the unsigned type of width W
IsRepr(x, W) ==
    /\ Len(x) = (IF W = V4_BITS_LEN THEN 4 ELSE 8)
    /\ \A k \in 1..Len(x) : x[k] \in 0..(Pow2(LimbBits(x)) - 1)

\* C23: mask, network_addr, broadcast_addr, size, contains, get and
\* get_unchecked return a value for every address, every index and every
\* 8-bit prefix (0, the full width and, for the free functions, values
\* above the width); every shift amount used is below the width W;
\* mask(0) is all zero and mask(p) for 1 <= p <= W has exactly the high p
\* bits set.
C23_OperationsAreTotal ==
    /\ (pc = "return" /\ op \in {"fn_mask", "fn_size", "fn_network_addr", "fn_broadcast_addr"})
       => LET W == BITS_LEN(arg.fam)
              p == arg.prefix
          IN  /\ p # 0 => shift_amount(W, p) \in 0..(W - 1)
              /\ IsRepr(ret, W)
              /\ (op = "fn_mask" /\ p <= W)
                 => \A k \in 1..W : Bits(ret)[k] = (IF k <= p THEN 1 ELSE 0)
    /\ (pc = "return" /\ op \in {"network_addr", "broadcast_addr", "get_unchecked"})
       => /\ cidr.prefix # 0
             => shift_amount(BITS_LEN(cidr.fam), cidr.prefix) \in 0..(BITS_LEN(cidr.fam) - 1)
          /\ ret.fam = cidr.fam
          /\ IsRepr(ret.bits, BITS_LEN(cidr.fam))
    /\ Returned("size")
       => /\ cidr.prefix # 0
             => shift_amount(BITS_LEN(cidr.fam), cidr.prefix) \in 0..(BITS_LEN(cidr.fam) - 1)
          /\ IsRepr(ret, V6_BITS_LEN)
    /\ Returned("contains") => ret \in BOOLEAN
    /\ Returned("get")
       => \/ ret = None
          \/ /\ ret.some
             /\ ret.val.fam = cidr.fam
             /\ IsRepr(ret.val.bits, BITS_LEN(cidr.fam))

C23_Witness ==
    /\ pc = "return"
    /\ op = "fn_mask"
    /\ arg.fam = "V4"
    /\ arg.prefix = U8_MAX
    /\ shift_amount(V4_BITS_LEN, arg.prefix) = 0
    /\ ret = ReprMax(V4_BITS_LEN)

\* the handlers of the loop that can take the byte at idx
Dispatched ==
    {h \in {"on_digit", "on_v4_sep", "on_v6_sep", "on_ip_end", "unexpected"} :
        \/ h = "on_digit" /\ ENABLED ParseDigit
        \/ h = "on_v4_sep" /\ ENABLED ParseV4Sep
        \/ h = "on_v6_sep" /\ ENABLED ParseV6Sep
        \/ h = "on_ip_end" /\ ENABLED ParseCidrSep
        \/ h = "unexpected" /\ ENABLED ParseUnexpected}

\* C24: parse_ip terminates on every input with Ok or Err; the scan is
\* single-pass: the index grows by one on every turn of the loop that goes
\* on, each byte goes to one handler, and the parse stops at the first
\* error, at the first '/' or at the end of the text.
C24_ParseTerminates ==
    /\ <>(result.tag \in {"Ok", "Err"})
    /\ [](idx <= Len(text))
    /\ [](\A j \in 1..idx : text[j] # "/")
    /\ [](InLoop => Cardinality(Dispatched) = 1)
    /\ []((pc = "parse" /\ ~InLoop) => (ENABLED ParseEnd /\ Dispatched = {}))
    /\ [][(pc = "parse" /\ pc' = "parse") => (idx' = idx + 1 /\ result' = result)]_vars
    /\ [][(pc = "parse" /\ pc' # "parse")
            => /\ pc' = "returned"
               /\ idx' = idx
               /\ result'.tag \in {"Ok", "Err"}
               /\ \/ result'.tag = "Err"
                  \/ idx = Len(text)
                  \/ text[idx + 1] = "/"]_vars
    /\ [][pc # "parse" => (idx' = idx /\ result' = result)]_vars

C24_Witness ==
    /\ Parsed
    /\ text = <<"1", ".", "1", ".", "1", ".", "1", ".", "1", "/", "5">>
    /\ idx = 9
    /\ result.tag = "Err"

\* C25: for a block cidr(a, p) with valid p and an address x of its
\* family, contains(x) holds exactly when network_addr <= x <=
\* broadcast_addr as unsigned integers; network_addr and broadcast_addr
\* depend only on the block: network_addr(network_addr(a, p), p) =
\* network_addr(a, p), and every address of the block gives the same
\* network and broadcast address.
C25_ContainsIsRange ==
    (Returned("contains") /\ arg.fam = cidr.fam) =>
        LET W == BITS_LEN(cidr.fam)
            p == cidr.prefix
            a == cidr.addr
            x == arg.bits
            net == cidr_network_addr(cidr)
            bcast == cidr_broadcast_addr(cidr)
        IN  /\ ret = (Geq(x, net) /\ Geq(bcast, x))
            /\ net = NetBits(a, p, W)
            /\ bcast = BcastBits(a, p, W)
            /\ network_addr(W, net, p) = net
            /\ broadcast_addr(W, net, p) = bcast
            /\ ret = TRUE => /\ network_addr(W, x, p) = net
                             /\ broadcast_addr(W, x, p) = bcast
            /\ ret = FALSE => /\ network_addr(W, x, p) # net
                              /\ broadcast_addr(W, x, p) # bcast

C25_Witness ==
    /\ Returned("contains")
    /\ cidr.fam = "V4"
    /\ cidr.addr = Ipv4Addr_new(127, 0, 0, 1)
    /\ cidr.prefix = 8
    /\ arg = IpAddrV4(Ipv4Addr_new(128, 0, 0, 0))
    /\ ret = FALSE

\* the last W - p bits of x, as a 128-bit index: x - (x & mask(p))
HostBits(x, p, W) ==
    LET b == Bits(x)
    IN  FromBits([k \in 1..V6_BITS_LEN |->
            IF k > (V6_BITS_LEN - W) + p THEN b[k - (V6_BITS_LEN - W)] ELSE 0])

\* C26: get enumerates the block without repetition: for idx < size() the
\* results are pairwise different (get(idx) differs from get(j) for every
\* larger j < size()), each satisfies contains, get(0) is the
\* network address and, for prefix >= 1, get(size() - 1) the broadcast
\* address, and every address that contains accepts is get(idx) for an
\* idx < size(). For prefix 0 get never returns the all-ones address:
\* get(MAX) is None and get(MAX - 1) the address just below, while
\* get_unchecked(MAX) returns it.
C26_GetEnumeratesBlock ==
    LET W == BITS_LEN(cidr.fam)
        p == cidr.prefix
        max == IF cidr.fam = "V4" THEN AsU128(ReprMax(W)) ELSE ReprMax(W)
        sz == Vec(Cidr_size(cidr))
    IN  /\ (Returned("get") /\ ~Geq(arg, sz))
           => /\ ret # None
              /\ ret.val.fam = cidr.fam
              /\ Cidr_contains(cidr, ret.val)
              /\ \A j \in {i \in Indices(cidr) : i # arg /\ Geq(i, arg) /\ ~Geq(i, sz)} :
                    Cidr_get(cidr, j) # ret
              /\ arg = Zero(V6_BITS_LEN) => ret.val.bits = NetBits(cidr.addr, p, W)
              /\ (p >= 1 /\ arg = Pred(sz)) => ret.val.bits = BcastBits(cidr.addr, p, W)
              /\ p = 0 => ret.val.bits # ReprMax(W)
              /\ (p = 0 /\ arg = Pred(max)) => ret.val.bits = Pred(ReprMax(W))
        /\ (Returned("get") /\ p = 0 /\ arg = max) => ret = None
        /\ (Returned("get_unchecked") /\ p = 0 /\ arg = max) => ret.bits = ReprMax(W)
        /\ (Returned("contains") /\ arg.fam = cidr.fam /\ ret = TRUE /\ p >= 1)
           => /\ ~Geq(HostBits(arg.bits, p, W), Cidr_size(cidr))
              /\ Cidr_get(cidr, HostBits(arg.bits, p, W)) = Some(arg)

C26_Witness ==
    /\ Returned("get")
    /\ cidr.fam = "V6"
    /\ cidr.prefix = 0
    /\ arg = Pred(ReprMax(V6_BITS_LEN))
    /\ ret = Some(IpAddrV6(Pred(ReprMax(V6_BITS_LEN))))

\* C27: in every reachable parser state components_size <= 8 (<= 4 once
\* the family is V4) and zero_component_start <= components_size; every
\* write to the buffer is at an index < 8 (a write at index i leaves
\* components_size = i + 1, and the buffer keeps its 8 slots); the splice
\* copies components_size - zero_component_start elements ending exactly
\* at slot 8 and zero-fills slots inside the buffer only; and every text
\* slice taken, a component's [start_digit_position, idx) and the suffix's
\* [idx + 1, length), lies within the text with start <= end.
C27_BufferAndSliceBounds ==
    LET zero_len == saturating_sub(IPV6_LEN, components_size)
        dst == saturating_add_u8(zero_component_start, zero_len)
        count == saturating_sub(components_size, zero_component_start)
    IN  /\ components_size <= COMPONENTS_LEN
        /\ family = "V4" => components_size <= IPV4_LEN
        /\ zero_component_start <= components_size
        /\ DOMAIN components = 1..COMPONENTS_LEN
        /\ \A k \in 1..COMPONENTS_LEN : components[k] \in 0..U16_MAX
        /\ idx <= Len(text)
        /\ state = "Digit" => start_digit_position <= idx
        /\ (pc = "parse" /\ state = "Digit") => start_digit_position < idx
        /\ (Parsed /\ result.tag = "Err" /\ result.err.kind = "InvalidComponent")
           => /\ state \in {"V4Sep", "V6Sep", "Digit"}
              /\ start_digit_position < idx
              /\ result.err.txt = SubSeq(text, start_digit_position + 1, idx)
        /\ (Parsed /\ result.tag = "Err" /\ result.err.kind = "InvalidCidr")
           => /\ idx + 1 < Len(text)
              /\ text[idx + 1] = "/"
              /\ result.err.txt = SubSeq(text, idx + 2, Len(text))
        /\ (Parsed /\ result.tag = "Ok" /\ result.prefix # None)
           => /\ idx + 1 < Len(text)
              /\ text[idx + 1] = "/"
        /\ (Parsed /\ result.tag = "Ok" /\ family = "V6" /\ components_size < IPV6_LEN)
           => /\ IS_IPV6_ZERO_SKIP \in flags
              /\ count = components_size - zero_component_start
              /\ dst + count = COMPONENTS_LEN
              /\ zero_component_start + zero_len <= COMPONENTS_LEN
              /\ \A k \in 1..COMPONENTS_LEN :
                    (k - 1 >= zero_component_start /\ k - 1 < zero_component_start + zero_len)
                    => components[k] = 0
              /\ result.ip.bits = components

C27_Witness ==
    /\ Parsed
    /\ family = "V6"
    /\ components_size = 5
    /\ zero_component_start = 2
    /\ result.tag = "Ok"
    /\ components = <<1, 65535, 0, 0, 0, 65535, 1, 1>>

\* the number of bytes of t that are ch
CountOf(t, ch) == Cardinality({k \in 1..Len(t) : t[k] = ch})

\* C28: the recognized family only moves from Unknown to V4 or from
\* Unknown to V6 and never changes afterwards; so an IPv4 address is
\* returned only for an address part with exactly three '.' and no ':',
\* and an IPv6 address only for an address part with no '.'.
C28_FamilyCommitsOnce ==
    /\ [][family' = family \/ (family = "Unknown" /\ family' \in {"V4", "V6"})]_vars
    /\ []((Parsed /\ result.tag = "Ok" /\ result.ip.fam = "V4")
            => /\ family = "V4"
               /\ CountOf(AddrPart(text), ".") = 3
               /\ CountOf(AddrPart(text), ":") = 0)
    /\ []((Parsed /\ result.tag = "Ok" /\ result.ip.fam = "V6")
            => /\ family = "V6"
               /\ CountOf(AddrPart(text), ".") = 0)
    /\ []((Parsed /\ result.tag = "Ok") => result.ip.fam \in {"V4", "V6"})

C28_Witness ==
    /\ Parsed
    /\ text = <<":", ":", "f", "f", "f", "f">>
    /\ family = "V6"
    /\ result = Ok(IpAddrV6(<<0, 0, 0, 0, 0, 0, 0, 65535>>), None)

====
